---- MODULE Spec2Model ----
(***************************************************************************)
(* A model of pyboof/calib.py: the camera-model classes (CameraPinhole,    *)
(* CameraBrown, CameraUniversalOmni, CameraKannalaBrandt), the lens        *)
(* distortion factories and their dispatch functions, the adjustment       *)
(* mapping, and the calibrate_* procedures.                                *)
(*                                                                         *)
(* A Python object is a function from attribute names to values; its       *)
(* "class" attribute is the name of its class.  A value that may be None   *)
(* or a list is a record [isNone, v], so that None and the empty list are  *)
(* different values, as they are in Python.                                *)
(***************************************************************************)
EXTENDS Integers, Sequences, FiniteSets, TLC

VARIABLES cam, out, factory, xform, want32, pc, call, jcalib, idx, jresult, errors, result

vars == <<cam, out, factory, xform, want32, pc, call, jcalib, idx, jresult, errors, result>>

modelVars == <<cam, out>>
distortVars == <<factory, xform, want32>>
calibVars == <<pc, call, jcalib, idx, jresult, errors, result>>

(***************************************************************************)
(* Bounds and input sets                                                   *)
(***************************************************************************)
\* longest radial coefficient list handed to set_distortion
MaxLen == 1
\* longest observation list handed to a calibrate_* function
MaxObs == 2
\* most points in one observation handed to the marshaling functions
MaxPts == 2

None == [isNone |-> TRUE, v |-> <<>>]
List(s) == [isNone |-> FALSE, v |-> s]
NoneF == [isNone |-> TRUE, v |-> 0]
Num(x) == [isNone |-> FALSE, v |-> x]

CoefSeqs == {[i \in 1..n |-> i] : n \in 0..MaxLen}
RadialArgs == {None} \cup {List(s) : s \in CoefSeqs}
TangentArgs == {0, 1}
MatrixArgs == {<<2, 3, 1, 4, 5>>}
ShapeArgs == {<<6, 7>>}
MirrorArgs == {0, 1}
KBSeqArgs == {List(<<>>), List(<<8>>)}
\* coefficient lists assigned to symmetric, radial, radialTrig, tangent, tangentTrig
KBArgs == {<<List(<<1>>), List(<<2>>), List(<<3>>), List(<<4>>), List(<<5>>)>>}
KBFields == {"symmetric", "radial", "radialTrig", "tangent", "tangentTrig"}
Objs == {1, 2}

(***************************************************************************)
(* Class hierarchy (calib.py lines 9, 30, 118, 200, 231, 278)              *)
(***************************************************************************)
ModelClasses == {"CameraPinhole", "CameraBrown", "CameraUniversalOmni", "CameraKannalaBrandt"}

\* the classes an instance of class c is an instance of
Bases(c) ==
    CASE c = "CameraPinhole" -> {"CameraModel", "CameraPinhole"}
      [] c = "CameraBrown" -> {"CameraModel", "CameraPinhole", "CameraBrown"}
      [] c = "CameraUniversalOmni" ->
            {"CameraModel", "CameraPinhole", "CameraBrown", "CameraUniversalOmni"}
      [] c = "CameraKannalaBrandt" -> {"CameraModel", "CameraPinhole", "CameraKannalaBrandt"}
      [] c = "StereoParameters" -> {"CameraModel", "StereoParameters"}
      [] OTHER -> {}

isinstance(obj, c) == c \in Bases(obj["class"])

(***************************************************************************)
(* Constructors with java_object=None                                      *)
(***************************************************************************)
CameraPinhole_init(c) ==
    [class |-> c, fx |-> 0, fy |-> 0, skew |-> 0, cx |-> 0, cy |-> 0,
     width |-> 0, height |-> 0]

CameraBrown_init(c) ==
    CameraPinhole_init(c) @@ [radial |-> None, t1 |-> 0, t2 |-> 0]

CameraUniversalOmni_init(c) ==
    CameraBrown_init(c) @@ [mirror_offset |-> 0]

CameraKannalaBrandt_init(c) ==
    CameraPinhole_init(c) @@
    [symmetric |-> List(<<>>), radial |-> List(<<>>), radialTrig |-> List(<<>>),
     tangent |-> List(<<>>), tangentTrig |-> List(<<>>)]

Construct(c) ==
    CASE c = "CameraPinhole" -> CameraPinhole_init(c)
      [] c = "CameraBrown" -> CameraBrown_init(c)
      [] c = "CameraUniversalOmni" -> CameraUniversalOmni_init(c)
      [] c = "CameraKannalaBrandt" -> CameraKannalaBrandt_init(c)

\* obj with attribute f bound to v (added when obj has no such attribute)
SetAttr(obj, f, v) == [g \in DOMAIN obj \cup {f} |-> IF g = f THEN v ELSE obj[g]]

(***************************************************************************)
(* Mutators                                                                *)
(***************************************************************************)
set_matrix(self, a) ==
    [g \in DOMAIN self |->
        CASE g = "fx" -> a[1] [] g = "fy" -> a[2] [] g = "skew" -> a[3]
          [] g = "cx" -> a[4] [] g = "cy" -> a[5] [] OTHER -> self[g]]

set_image_shape(self, a) ==
    [g \in DOMAIN self |->
        CASE g = "width" -> a[1] [] g = "height" -> a[2] [] OTHER -> self[g]]

set_distortion(self, radial, t1, t2) ==
    [g \in DOMAIN self |->
        CASE g = "radial" -> radial [] g = "t1" -> t1 [] g = "t2" -> t2
          [] OTHER -> self[g]]

\* the attributes CameraPinhole.set assigns, in order
CameraPinhole_set_order == <<"fx", "fy", "skew", "cx", "cy", "width", "height">>

\* the attributes CameraBrown.set assigns, in order
CameraBrown_set_order ==
    <<"fx", "fy", "skew", "cx", "cy", "width", "height", "radial", "t1", "t2">>

\* the set method an instance of class c resolves to: CameraUniversalOmni
\* inherits CameraBrown.set, CameraKannalaBrandt inherits CameraPinhole.set
set_order(c) ==
    IF "CameraBrown" \in Bases(c) THEN CameraBrown_set_order ELSE CameraPinhole_set_order

\* self.set(orig): the assignments run in order and stop at the first
\* attribute orig does not have (AttributeError)
set(self, orig) ==
    LET order == set_order(self["class"])
        missing == {i \in 1..Len(order) : order[i] \notin DOMAIN orig}
        stop == IF missing = {} THEN Len(order) + 1
                ELSE CHOOSE i \in missing : \A j \in missing : i <= j
        done == {order[i] : i \in 1..(stop - 1)}
    IN [obj |-> [g \in DOMAIN self \cup done |-> IF g \in done THEN orig[g] ELSE self[g]],
        raised |-> IF missing = {} THEN "none" ELSE "AttributeError"]

(***************************************************************************)
(* Inspection                                                              *)
(***************************************************************************)
is_distorted(self) ==
    (~self["radial"].isNone) \/ self["t1"] # 0 \/ self["t2"] # 0

PinholeItems(self) ==
    << <<"fx", self["fx"]>>, <<"fy", self["fy"]>>, <<"skew", self["skew"]>>,
       <<"cx", self["cx"]>>, <<"cy", self["cy"]>>,
       <<"width", self["width"]>>, <<"height", self["height"]>> >>

\* the " | radial=... t1=... t1=..." tail both Brown renderings append
DistortionItems(self) ==
    IF is_distorted(self)
    THEN << <<"radial", self["radial"]>>, <<"t1", self["t1"]>>, <<"t1", self["t2"]>> >>
    ELSE << >>

CameraPinhole_str(self) == [head |-> "Pinhole", items |-> PinholeItems(self)]

CameraBrown_str(self) ==
    [head |-> "Brown", items |-> PinholeItems(self) \o DistortionItems(self)]

CameraUniversalOmni_str(self) ==
    [head |-> "UniversalOmni",
     items |-> PinholeItems(self) \o << <<"mirror", self["mirror_offset"]>> >>
               \o DistortionItems(self)]

CameraKannalaBrandt_str(self) ==
    [head |-> "CameraKannalaBrandt",
     items |-> PinholeItems(self) \o
               << <<"symmetric", self["symmetric"]>>, <<"radial", self["radial"]>>,
                  <<"radialTrig", self["radialTrig"]>>, <<"tangent", self["tangent"]>>,
                  <<"tangentTrig", self["tangentTrig"]>> >>]

str(self) ==
    CASE self["class"] = "CameraPinhole" -> CameraPinhole_str(self)
      [] self["class"] = "CameraBrown" -> CameraBrown_str(self)
      [] self["class"] = "CameraUniversalOmni" -> CameraUniversalOmni_str(self)
      [] self["class"] = "CameraKannalaBrandt" -> CameraKannalaBrandt_str(self)

(***************************************************************************)
(* Conversion to the foreign (Java) representation                         *)
(***************************************************************************)
\* float(x) and int(x): every number of this model is an integer, which
\* float() represents exactly and int() leaves as it is
float(x) == x
int(x) == x

\* a fresh boofcv.struct.calib.CameraPinholeBrown()
Java_CameraPinholeBrown ==
    [class |-> "CameraPinholeBrown", fx |-> 0, fy |-> 0, skew |-> 0, cx |-> 0, cy |-> 0,
     width |-> 0, height |-> 0, radial |-> None, t1 |-> 0, t2 |-> 0]

\* a fresh boofcv.struct.calib.CameraUniversalOmni(0)
Java_CameraUniversalOmni ==
    [class |-> "CameraUniversalOmni", fx |-> 0, fy |-> 0, skew |-> 0, cx |-> 0, cy |-> 0,
     width |-> 0, height |-> 0, radial |-> List(<<>>), t1 |-> 0, t2 |-> 0,
     mirror_offset |-> 0]

\* a fresh boofcv.struct.calib.CameraKannalaBrandt(numSymmetric, numRadial)
Java_CameraKannalaBrandt(nsym, nrad) ==
    [class |-> "CameraKannalaBrandt", fx |-> 0, fy |-> 0, skew |-> 0, cx |-> 0, cy |-> 0,
     width |-> 0, height |-> 0,
     symmetric |-> List([i \in 1..nsym |-> 0]), radial |-> List([i \in 1..nrad |-> 0]),
     radialTrig |-> List(<<>>), tangent |-> List(<<>>), tangentTrig |-> List(<<>>)]

CameraPinhole_convert_to_boof(self, storage) ==
    [g \in DOMAIN storage |->
        CASE g \in {"fx", "fy", "cx", "cy", "skew"} -> float(self[g])
          [] g \in {"width", "height"} -> int(self[g])
          [] OTHER -> storage[g]]

\* setRadial is called only when self.radial is not None
CameraBrown_convert_to_boof(self, storage) ==
    LET b == CameraPinhole_convert_to_boof(self, storage)
    IN [g \in DOMAIN b |->
          CASE g = "radial" -> IF ~self["radial"].isNone THEN self["radial"] ELSE b[g]
            [] g = "t1" -> float(self["t1"])
            [] g = "t2" -> float(self["t2"])
            [] OTHER -> b[g]]

CameraUniversalOmni_convert_to_boof(self, storage) ==
    LET b == CameraBrown_convert_to_boof(self, storage)
    IN [g \in DOMAIN b |-> IF g = "mirror_offset" THEN float(self["mirror_offset"]) ELSE b[g]]

CameraKannalaBrandt_convert_to_boof(self, storage) ==
    LET b == CameraPinhole_convert_to_boof(self, storage)
    IN [g \in DOMAIN b |-> IF g \in KBFields THEN self[g] ELSE b[g]]

\* camera_model.convert_to_boof() with storage=None, by the class of the model
convert_to_boof(self) ==
    CASE self["class"] = "CameraPinhole" ->
            CameraPinhole_convert_to_boof(self, Java_CameraPinholeBrown)
      [] self["class"] = "CameraBrown" ->
            CameraBrown_convert_to_boof(self, Java_CameraPinholeBrown)
      [] self["class"] = "CameraUniversalOmni" ->
            CameraUniversalOmni_convert_to_boof(self, Java_CameraUniversalOmni)
      [] self["class"] = "CameraKannalaBrandt" ->
            CameraKannalaBrandt_convert_to_boof(self,
                Java_CameraKannalaBrandt(Len(self["symmetric"].v), Len(self["radial"].v)))

(***************************************************************************)
(* Lens distortion factories                                               *)
(***************************************************************************)
NoObject == [class |-> "NoneType"]

\* a foreign distortion engine built from a converted model
Engine(name, boof_model) == [class |-> name, model |-> boof_model]

LensNarrowDistortionFactory(java_object, use_32) ==
    [class |-> "LensNarrowDistortionFactory", java_obj |-> java_object, use_32 |-> use_32]

LensWideDistortionFactory(java_object, use_32) ==
    [class |-> "LensWideDistortionFactory", java_obj |-> java_object, use_32 |-> use_32]

\* the value of the use_32 parameter when the caller leaves it out
Default_use_32 == TRUE

\* what a call leaves behind: the exception raised ("none" when it returns),
\* the value returned, and the foreign calls made on the way, in order
Raised(e, calls) == [raised |-> e, ret |-> NoObject, calls |-> calls]
Returned(v, calls) == [raised |-> "none", ret |-> v, calls |-> calls]

\* create_narrow_lens_distorter with the CameraPinhole test made first
create_narrow_lens_distorter_pinhole_first(camera_model) ==
    IF isinstance(camera_model, "CameraPinhole")
    THEN Returned(LensNarrowDistortionFactory(
                      Engine("LensDistortionPinhole", convert_to_boof(camera_model)),
                      Default_use_32),
                  <<"convert_to_boof", "LensDistortionPinhole">>)
    ELSE Raised("RuntimeError", <<>>)

create_narrow_lens_distorter(camera_model) ==
    IF isinstance(camera_model, "CameraUniversalOmni")
    THEN Raised("RuntimeError", <<>>)
    ELSE IF isinstance(camera_model, "CameraPinhole")
    THEN Returned(LensNarrowDistortionFactory(
                      Engine("LensDistortionPinhole", convert_to_boof(camera_model)),
                      Default_use_32),
                  <<"convert_to_boof", "LensDistortionPinhole">>)
    ELSE IF isinstance(camera_model, "CameraBrown")
    THEN IF is_distorted(camera_model)
         THEN Returned(LensNarrowDistortionFactory(
                           Engine("LensDistortionBrown", convert_to_boof(camera_model)),
                           Default_use_32),
                       <<"convert_to_boof", "LensDistortionBrown">>)
         ELSE Returned(LensNarrowDistortionFactory(
                           Engine("LensDistortionPinhole", convert_to_boof(camera_model)),
                           Default_use_32),
                       <<"convert_to_boof", "LensDistortionPinhole">>)
    ELSE Raised("RuntimeError", <<>>)

\* create_wide_lens_distorter testing for CameraBrown where it tests for
\* CameraUniversalOmni
create_wide_lens_distorter_any_brown(camera_model) ==
    IF isinstance(camera_model, "CameraBrown")
    THEN Returned(LensWideDistortionFactory(
                      Engine("LensDistortionUniversalOmni", convert_to_boof(camera_model)),
                      Default_use_32),
                  <<"convert_to_boof", "LensDistortionUniversalOmni">>)
    ELSE IF isinstance(camera_model, "CameraKannalaBrandt")
    THEN Returned(LensWideDistortionFactory(
                      Engine("LensDistortionKannalaBrandt", convert_to_boof(camera_model)),
                      Default_use_32),
                  <<"convert_to_boof", "LensDistortionKannalaBrandt">>)
    ELSE Raised("RuntimeError", <<>>)

create_wide_lens_distorter(camera_model) ==
    IF isinstance(camera_model, "CameraUniversalOmni")
    THEN Returned(LensWideDistortionFactory(
                      Engine("LensDistortionUniversalOmni", convert_to_boof(camera_model)),
                      Default_use_32),
                  <<"convert_to_boof", "LensDistortionUniversalOmni">>)
    ELSE IF isinstance(camera_model, "CameraKannalaBrandt")
    THEN Returned(LensWideDistortionFactory(
                      Engine("LensDistortionKannalaBrandt", convert_to_boof(camera_model)),
                      Default_use_32),
                  <<"convert_to_boof", "LensDistortionKannalaBrandt">>)
    ELSE Raised("RuntimeError", <<>>)

\* NarrowToWideFovPtoP.__init__: the narrow factory is built first, and an
\* exception of either build leaves the constructor at once
NarrowToWideFovPtoP_init(narrow_model, wide_model) ==
    LET n == create_narrow_lens_distorter(narrow_model)
        w == create_wide_lens_distorter(wide_model)
    IN IF n.raised # "none" THEN Raised(n.raised, n.calls)
       ELSE IF w.raised # "none" THEN Raised(w.raised, n.calls \o w.calls)
       ELSE Returned([class |-> "NarrowToWideFovPtoP",
                      java_obj |-> [class |-> "NarrowToWidePtoP_F32",
                                    narrow |-> n.ret.java_obj, wide |-> w.ret.java_obj]],
                     n.calls \o w.calls \o <<"NarrowToWidePtoP_F32">>)

\* the foreign method a factory method calls, by the factory's use_32
Precision(self) == IF self.use_32 THEN 32 ELSE 64

LensNarrowDistortionFactory_distort(self, pixel_in, pixel_out) ==
    [class |-> "Transform2to2",
     java_obj |-> [method |-> "distort", bits |-> Precision(self),
                   pixel_in |-> pixel_in, pixel_out |-> pixel_out]]

LensNarrowDistortionFactory_undistort(self, pixel_in, pixel_out) ==
    [class |-> "Transform2to2",
     java_obj |-> [method |-> "undistort", bits |-> Precision(self),
                   pixel_in |-> pixel_in, pixel_out |-> pixel_out]]

LensWideDistortionFactory_distort_s_to_p(self) ==
    [class |-> "Transform3to2",
     java_obj |-> [method |-> "distortStoP", bits |-> Precision(self)]]

LensWideDistortionFactory_undistort_p_to_s(self) ==
    [class |-> "Transform2to3",
     java_obj |-> [method |-> "undistortPtoS", bits |-> Precision(self)]]

(***************************************************************************)
(* Adjustment policy and change of camera model                            *)
(***************************************************************************)
AdjustmentType_NONE == 0
AdjustmentType_FULL_VIEW == 1
AdjustmentType_EXPAND == 2

\* a Python value handed in as adjustment: a number (int, float or bool, all
\* of which Python's == compares by value) or something that is no number
PyNumber(t, x) == [type |-> t, v |-> x]
PyEq(value, n) == value.type \in {"int", "float", "bool"} /\ value.v = n

AdjustArgs ==
    {PyNumber("int", x) : x \in -1..3} \cup
    {PyNumber("bool", 0), PyNumber("bool", 1), PyNumber("float", 2), PyNumber("str", 0),
     PyNumber("NoneType", 0)}

\* adjustment_to_java with a last branch that falls back to FULL_VIEW
adjustment_to_java_fallback(value) ==
    IF PyEq(value, AdjustmentType_NONE) THEN Returned("NONE", <<"AdjustmentType.valueOf">>)
    ELSE IF PyEq(value, AdjustmentType_EXPAND)
    THEN Returned("EXPAND", <<"AdjustmentType.valueOf">>)
    ELSE Returned("FULL_VIEW", <<"AdjustmentType.valueOf">>)

adjustment_to_java(value) ==
    IF PyEq(value, AdjustmentType_NONE) THEN Returned("NONE", <<"AdjustmentType.valueOf">>)
    ELSE IF PyEq(value, AdjustmentType_FULL_VIEW)
    THEN Returned("FULL_VIEW", <<"AdjustmentType.valueOf">>)
    ELSE IF PyEq(value, AdjustmentType_EXPAND)
    THEN Returned("EXPAND", <<"AdjustmentType.valueOf">>)
    ELSE Raised("RuntimeError", <<>>)

\* border_ok: whether border_to_java (pyboof.image) accepts the border argument
create_change_camera_model(intrinsic_orig, intrinsic_desired, adjustment, border_ok) ==
    LET a == adjustment_to_java(adjustment)
        c1 == <<"get_java_object">> \o a.calls
        c2 == c1 \o <<"border_to_java">>
    IN IF a.raised # "none" THEN Raised(a.raised, c1)
       ELSE IF ~border_ok THEN Raised("RuntimeError", c2)
       ELSE Returned([class |-> "tuple",
                      distort |-> [class |-> "ImageDistort", adjustment |-> a.ret,
                                   original |-> convert_to_boof(intrinsic_orig),
                                   desired |-> convert_to_boof(intrinsic_desired)],
                      intrinsic |-> [class |-> "CameraPinhole"]],
                     c2 \o <<"convert_to_boof", "convert_to_boof", "CameraPinholeBrown",
                             "changeCameraModel">>)

remove_distortion(intrinsic, adjustment, border_ok) ==
    LET copied == set(CameraPinhole_init("CameraPinhole"), intrinsic).obj
        desired == SetAttr(SetAttr(SetAttr(copied, "radial", List(<<0, 0>>)), "t2", 0), "t1", 0)
        r == create_change_camera_model(intrinsic, desired, adjustment, border_ok)
        c == <<"getImageType">> \o r.calls
    IN IF r.raised # "none" THEN Raised(r.raised, c)
       ELSE Returned(r.ret.intrinsic, c \o <<"apply">>)

(***************************************************************************)
(* Calibration                                                             *)
(***************************************************************************)
\* an observation as convert_into_boof_calibration_observations reads it, and
\* as the calibrate_* docstrings describe it
ObsPixels == [pixels |-> << <<0, 1, 2>>, <<1, 3, 4>> >>, width |-> 6, height |-> 7]
ObsPoints == [points |-> << <<0, 1, 2>>, <<1, 3, 4>> >>, width |-> 6, height |-> 7]
ObsArgs == {ObsPixels, ObsPoints}

SeqsUpTo(S, n) == UNION {[1..k -> S] : k \in 0..n}
ObsLists == SeqsUpTo(ObsArgs, MaxObs)

\* convert_into_boof_calibration_observations building Point2D_F64(y, x)
convert_into_boof_calibration_observations_swapped(observations) ==
    IF "width" \notin DOMAIN observations \/ "height" \notin DOMAIN observations
       \/ "pixels" \notin DOMAIN observations
    THEN Raised("KeyError", <<>>)
    ELSE LET pixels == observations["pixels"]
         IN Returned([class |-> "CalibrationObservation",
                      width |-> int(observations["width"]),
                      height |-> int(observations["height"]),
                      points |-> [i \in 1..Len(pixels) |->
                                    [index |-> int(pixels[i][1]), x |-> float(pixels[i][3]),
                                     y |-> float(pixels[i][2])]]],
                     <<"CalibrationObservation">>)

convert_into_boof_calibration_observations(observations) ==
    IF "width" \notin DOMAIN observations \/ "height" \notin DOMAIN observations
       \/ "pixels" \notin DOMAIN observations
    THEN Raised("KeyError", <<>>)
    ELSE LET pixels == observations["pixels"]
         IN Returned([class |-> "CalibrationObservation",
                      width |-> int(observations["width"]),
                      height |-> int(observations["height"]),
                      points |-> [i \in 1..Len(pixels) |->
                                    [index |-> int(pixels[i][1]), x |-> float(pixels[i][2]),
                                     y |-> float(pixels[i][3])]]],
                     <<"CalibrationObservation">>)

convert_from_boof_calibration_observations(jobservations) ==
    [i \in 1..Len(jobservations.points) |->
        <<jobservations.points[i].index, jobservations.points[i].x,
          jobservations.points[i].y>>]

\* (point_index, x, y) tuples of a detection: indices may repeat and come in
\* any order
PointArgs == {<<k, xy[1], xy[2]>> : k \in 0..1, xy \in {<<1, 2>>, <<3, 4>>, <<4, 3>>}}
PointLists == SeqsUpTo(PointArgs, MaxPts)

\* observations handed to the marshaling functions, in the form the code
\* reads and in the form the docstrings give
MarshalArgs ==
    {[pixels |-> l, width |-> 6, height |-> 7] : l \in PointLists} \cup
    {[points |-> l, width |-> 6, height |-> 7] : l \in PointLists}

\* the arguments of a call; observations is observations_left for calibrate_stereo
CalibCalls ==
    {[fn |-> "calibrate_brown", observations |-> l, right |-> <<>>, mirror_offset |-> NoneF]
        : l \in ObsLists} \cup
    {[fn |-> "calibrate_universal", observations |-> l, right |-> <<>>, mirror_offset |-> m]
        : l \in ObsLists, m \in {NoneF, Num(0), Num(1)}} \cup
    {[fn |-> "calibrate_kannala_brandt", observations |-> l, right |-> <<>>,
      mirror_offset |-> NoneF] : l \in ObsLists} \cup
    {[fn |-> "calibrate_stereo", observations |-> l, right |-> r, mirror_offset |-> NoneF]
        : l \in ObsLists, r \in ObsLists}

\* the configure call each function makes on the solver, with default hyperparameters
configurePinhole ==
    [method |-> "configurePinhole", zero_skew |-> TRUE, num_radial |-> int(2),
     tangential |-> TRUE, fixed_mirror |-> FALSE, mirror |-> 0]

\* configureUniversalOmni chosen by "if not mirror_offset", which takes 0.0
\* for an omitted offset
configureUniversalOmni_truthy(mirror_offset) ==
    IF mirror_offset.isNone \/ mirror_offset.v = 0
    THEN [method |-> "configureUniversalOmni", zero_skew |-> TRUE, num_radial |-> int(2),
          tangential |-> TRUE, fixed_mirror |-> FALSE, mirror |-> 0]
    ELSE [method |-> "configureUniversalOmni", zero_skew |-> TRUE, num_radial |-> int(2),
          tangential |-> TRUE, fixed_mirror |-> TRUE, mirror |-> float(mirror_offset.v)]

configureUniversalOmni(mirror_offset) ==
    IF mirror_offset.isNone
    THEN [method |-> "configureUniversalOmni", zero_skew |-> TRUE, num_radial |-> int(2),
          tangential |-> TRUE, fixed_mirror |-> FALSE, mirror |-> 0]
    ELSE [method |-> "configureUniversalOmni", zero_skew |-> TRUE, num_radial |-> int(2),
          tangential |-> TRUE, fixed_mirror |-> TRUE, mirror |-> float(mirror_offset.v)]

configureKannalaBrandt ==
    [method |-> "configureKannalaBrandt", zero_skew |-> TRUE, num_symmetric |-> 5,
     num_asymmetric |-> 0, fixed_mirror |-> FALSE, mirror |-> 0]

configureStereo ==
    [method |-> "configure", zero_skew |-> TRUE, num_radial |-> int(4),
     tangential |-> FALSE, fixed_mirror |-> FALSE, mirror |-> 0]

ConfigureOf(c) ==
    CASE c.fn = "calibrate_brown" -> configurePinhole
      [] c.fn = "calibrate_universal" -> configureUniversalOmni(c.mirror_offset)
      [] c.fn = "calibrate_kannala_brandt" -> configureKannalaBrandt
      [] c.fn = "calibrate_stereo" -> configureStereo

NoConfig == [method |-> "none", zero_skew |-> FALSE, num_radial |-> 0,
             tangential |-> FALSE, fixed_mirror |-> FALSE, mirror |-> 0]

\* a fresh CalibrateMonoPlanar / CalibrateStereoPlanar: its configuration, the
\* images (or pairs) added, and the calls made on it, in order
NewSolver == [cfg |-> NoConfig, images |-> <<>>, log |-> <<>>]
NoCall == [fn |-> "none", observations |-> <<>>, right |-> <<>>, mirror_offset |-> NoneF]

(***************************************************************************)
(* Construction from a foreign object (java_object is not None)            *)
(***************************************************************************)
CameraPinhole_set_from_boof(self, b) ==
    [g \in DOMAIN self \cup {"fx", "fy", "cx", "cy", "skew", "width", "height"} |->
        IF g \in {"fx", "fy", "cx", "cy", "skew", "width", "height"} THEN b[g] ELSE self[g]]

CameraBrown_set_from_boof(self, b) ==
    LET p == CameraPinhole_set_from_boof(self, b)
    IN [g \in DOMAIN p \cup {"radial", "t1", "t2"} |->
          CASE g = "radial" -> IF b["radial"].isNone THEN None
                               ELSE List([i \in 1..Len(b["radial"].v) |-> float(b["radial"].v[i])])
            [] g = "t1" -> b["t1"]
            [] g = "t2" -> b["t2"]
            [] OTHER -> p[g]]

CameraUniversalOmni_set_from_boof(self, b) ==
    SetAttr(CameraBrown_set_from_boof(self, b), "mirror_offset", b["mirror_offset"])

CameraKannalaBrandt_set_from_boof(self, b) ==
    LET p == CameraPinhole_set_from_boof(self, b)
    IN [g \in DOMAIN p \cup KBFields |->
          IF g \in KBFields
          THEN List([i \in 1..Len(b[g].v) |-> float(b[g].v[i])])
          ELSE p[g]]

StereoParameters_set_from_boof(b) ==
    [class |-> "StereoParameters",
     left |-> CameraBrown_set_from_boof([class |-> "CameraBrown"], b.left),
     right |-> CameraBrown_set_from_boof([class |-> "CameraBrown"], b.right),
     right_to_left |-> b.right_to_left]

\* StereoParameters() with java_object=None
StereoParameters_init ==
    [class |-> "StereoParameters", left |-> CameraBrown_init("CameraBrown"),
     right |-> CameraBrown_init("CameraBrown"), right_to_left |-> "Se3_F64"]

\* the Python object each calibrate_* function wraps the solver's result in
WrapResult(fn, b) ==
    CASE fn = "calibrate_brown" -> CameraBrown_set_from_boof([class |-> "CameraBrown"], b)
      [] fn = "calibrate_universal" ->
            CameraUniversalOmni_set_from_boof([class |-> "CameraUniversalOmni"], b)
      [] fn = "calibrate_kannala_brandt" ->
            CameraKannalaBrandt_set_from_boof([class |-> "CameraKannalaBrandt"], b)
      [] fn = "calibrate_stereo" -> StereoParameters_set_from_boof(b)

\* what the solver's process() hands back once it has converged: a foreign
\* model of the configured kind and shape
FittedBrown(cfg) ==
    [Java_CameraPinholeBrown EXCEPT !.fx = 2, !.fy = 3, !.cx = 4, !.cy = 5,
        !.width = 6, !.height = 7,
        !.radial = List([i \in 1..cfg.num_radial |-> 1])]

ProcessResult(cfg) ==
    CASE cfg.method = "configurePinhole" -> FittedBrown(cfg)
      [] cfg.method = "configureUniversalOmni" ->
            FittedBrown(cfg) @@ [mirror_offset |-> IF cfg.fixed_mirror THEN cfg.mirror ELSE 1]
      [] cfg.method = "configureKannalaBrandt" ->
            Java_CameraKannalaBrandt(cfg.num_symmetric, cfg.num_asymmetric)
      [] cfg.method = "configure" ->
            [class |-> "StereoParameters", left |-> FittedBrown(cfg),
             right |-> FittedBrown(cfg), right_to_left |-> "Se3_F64"]

\* one entry of the errors list, built from one foreign ImageResults
ErrorStats == [mean |-> 0, max_error |-> 0, bias_x |-> 0, bias_y |-> 0]

(***************************************************************************)
(* Arguments handed to the distortion and rectification functions          *)
(***************************************************************************)
WithIntrinsics(b) ==
    {b} \cup {set_image_shape(set_matrix(b, m), sh) : m \in MatrixArgs, sh \in ShapeArgs}

BrownModels(c) ==
    {set_distortion(p, r, t1, t2) :
        p \in WithIntrinsics(Construct(c)), r \in RadialArgs,
        t1 \in TangentArgs, t2 \in TangentArgs}

Models ==
    WithIntrinsics(Construct("CameraPinhole")) \cup BrownModels("CameraBrown") \cup
    {SetAttr(b, "mirror_offset", m) : b \in BrownModels("CameraUniversalOmni"), m \in MirrorArgs}
    \cup {SetAttr(SetAttr(k, "symmetric", sy), "radial", r) :
            k \in WithIntrinsics(Construct("CameraKannalaBrandt")),
            sy \in KBSeqArgs, r \in KBSeqArgs}

\* anything a caller may pass as camera_model
DistortArgs == Models \cup {StereoParameters_init, [class |-> "str"]}

WideArgs ==
    {Construct("CameraUniversalOmni"), Construct("CameraKannalaBrandt"),
     Construct("CameraBrown")}

(***************************************************************************)
(* State                                                                   *)
(*   cam      two camera-model objects                                     *)
(*   out      the most recent call on a model or a module function and     *)
(*            what it left behind                                          *)
(*   factory  the distortion factory the caller holds                      *)
(*   xform    the transform last built from that factory                   *)
(*   want32   the precision the caller of a factory build asked for        *)
(*   pc, call, jcalib, idx, jresult, errors, result                        *)
(*            a calibrate_* call in progress: its position, arguments,     *)
(*            solver, loop index, solver result, errors list and the       *)
(*            value returned to the caller                                 *)
(***************************************************************************)
Void == [op |-> "none"]

Init ==
    /\ cam = [i \in Objs |-> Construct("CameraPinhole")]
    /\ out = Void
    /\ factory = NoObject
    /\ xform = NoObject
    /\ want32 = TRUE
    /\ pc = "idle"
    /\ call = NoCall
    /\ jcalib = NewSolver
    /\ idx = 0
    /\ jresult = NoObject
    /\ errors = <<>>
    /\ result = NoObject

(***************************************************************************)
(* Operations on camera-model objects                                      *)
(***************************************************************************)
New(i) ==
    /\ \E c \in ModelClasses : cam' = [cam EXCEPT ![i] = Construct(c)]
    /\ out' = Void
    /\ UNCHANGED <<distortVars, calibVars>>

SetMatrix(i) ==
    /\ \E a \in MatrixArgs : cam' = [cam EXCEPT ![i] = set_matrix(cam[i], a)]
    /\ out' = Void
    /\ UNCHANGED <<distortVars, calibVars>>

SetImageShape(i) ==
    /\ \E a \in ShapeArgs : cam' = [cam EXCEPT ![i] = set_image_shape(cam[i], a)]
    /\ out' = Void
    /\ UNCHANGED <<distortVars, calibVars>>

SetDistortion(i) ==
    /\ isinstance(cam[i], "CameraBrown")
    /\ \E r \in RadialArgs, t1 \in TangentArgs, t2 \in TangentArgs :
          cam' = [cam EXCEPT ![i] = set_distortion(cam[i], r, t1, t2)]
    /\ out' = Void
    /\ UNCHANGED <<distortVars, calibVars>>

\* obj.mirror_offset = m
AssignMirrorOffset(i) ==
    /\ isinstance(cam[i], "CameraUniversalOmni")
    /\ \E m \in MirrorArgs : cam' = [cam EXCEPT ![i] = SetAttr(cam[i], "mirror_offset", m)]
    /\ out' = Void
    /\ UNCHANGED <<distortVars, calibVars>>

\* obj.symmetric = [...]; obj.radial = [...]; obj.radialTrig = [...];
\* obj.tangent = [...]; obj.tangentTrig = [...]
AssignCoefficients(i) ==
    /\ isinstance(cam[i], "CameraKannalaBrandt")
    /\ \E a \in KBArgs :
          cam' = [cam EXCEPT ![i] =
                    SetAttr(SetAttr(SetAttr(SetAttr(SetAttr(cam[i],
                        "symmetric", a[1]), "radial", a[2]), "radialTrig", a[3]),
                        "tangent", a[4]), "tangentTrig", a[5])]
    /\ out' = Void
    /\ UNCHANGED <<distortVars, calibVars>>

\* cam[i].set(cam[j])
Set(i, j) ==
    /\ i # j
    /\ LET r == set(cam[i], cam[j])
       IN /\ cam' = [cam EXCEPT ![i] = r.obj]
          /\ out' = [op |-> "set", self |-> i, orig |-> j, raised |-> r.raised]
    /\ UNCHANGED <<distortVars, calibVars>>

IsDistorted(i) ==
    /\ isinstance(cam[i], "CameraBrown")
    /\ out' = [op |-> "is_distorted", self |-> i, ret |-> is_distorted(cam[i])]
    /\ UNCHANGED <<cam, distortVars, calibVars>>

Str(i) ==
    /\ out' = [op |-> "str", self |-> i, ret |-> str(cam[i])]
    /\ UNCHANGED <<cam, distortVars, calibVars>>

NextModel ==
    \/ \E i \in Objs : New(i)
    \/ \E i \in Objs : SetMatrix(i)
    \/ \E i \in Objs : SetImageShape(i)
    \/ \E i \in Objs : SetDistortion(i)
    \/ \E i \in Objs : AssignMirrorOffset(i)
    \/ \E i \in Objs : AssignCoefficients(i)
    \/ Set(1, 2)
    \/ \E i \in Objs : IsDistorted(i)
    \/ \E i \in Objs : Str(i)

SpecModel == Init /\ [][NextModel]_vars

(***************************************************************************)
(* Building distortion factories and transforms                            *)
(***************************************************************************)
\* the caller holds no result of an earlier call
Idle == out = Void /\ factory = NoObject

\* the caller drops what the last call left it
Discard ==
    /\ ~Idle
    /\ out' = Void
    /\ factory' = NoObject
    /\ xform' = NoObject
    /\ UNCHANGED <<cam, want32, calibVars>>

CallRecord(op, arg, r) ==
    [op |-> op, arg |-> arg, raised |-> r.raised, calls |-> r.calls, ret |-> r.ret]

\* factory = create_narrow_lens_distorter(m), by a caller who wants the
\* precision w
CreateNarrow ==
    /\ Idle
    /\ \E m \in DistortArgs, w \in BOOLEAN :
          LET r == create_narrow_lens_distorter(m)
          IN /\ out' = CallRecord("create_narrow_lens_distorter", m, r)
             /\ factory' = r.ret
             /\ want32' = w
    /\ xform' = NoObject
    /\ UNCHANGED <<cam, calibVars>>

CreateWide ==
    /\ Idle
    /\ \E m \in DistortArgs, w \in BOOLEAN :
          LET r == create_wide_lens_distorter(m)
          IN /\ out' = CallRecord("create_wide_lens_distorter", m, r)
             /\ factory' = r.ret
             /\ want32' = w
    /\ xform' = NoObject
    /\ UNCHANGED <<cam, calibVars>>

\* NarrowToWideFovPtoP(narrow_model, wide_model)
NewNarrowToWide ==
    /\ Idle
    /\ \E n \in DistortArgs, w \in WideArgs :
          out' = [CallRecord("NarrowToWideFovPtoP", n, NarrowToWideFovPtoP_init(n, w))
                    EXCEPT !.ret = IF @ = NoObject THEN @ ELSE [class |-> @.class]]
    /\ factory' = NoObject
    /\ xform' = NoObject
    /\ UNCHANGED <<cam, want32, calibVars>>

\* factory = LensNarrowDistortionFactory(java_object, use_32)
NewNarrowFactory ==
    /\ Idle
    /\ \E m \in WideArgs, u \in BOOLEAN :
          /\ factory' = LensNarrowDistortionFactory(
                            Engine("LensDistortionBrown", convert_to_boof(m)), u)
          /\ want32' = u
    /\ out' = Void
    /\ xform' = NoObject
    /\ UNCHANGED <<cam, calibVars>>

\* factory = LensWideDistortionFactory(java_object, use_32)
NewWideFactory ==
    /\ Idle
    /\ \E m \in WideArgs, u \in BOOLEAN :
          /\ factory' = LensWideDistortionFactory(
                            Engine("LensDistortionUniversalOmni", convert_to_boof(m)), u)
          /\ want32' = u
    /\ out' = Void
    /\ xform' = NoObject
    /\ UNCHANGED <<cam, calibVars>>

Distort ==
    /\ factory.class = "LensNarrowDistortionFactory"
    /\ \E pin \in BOOLEAN, pout \in BOOLEAN :
          xform' = LensNarrowDistortionFactory_distort(factory, pin, pout)
    /\ UNCHANGED <<cam, out, factory, want32, calibVars>>

Undistort ==
    /\ factory.class = "LensNarrowDistortionFactory"
    /\ \E pin \in BOOLEAN, pout \in BOOLEAN :
          xform' = LensNarrowDistortionFactory_undistort(factory, pin, pout)
    /\ UNCHANGED <<cam, out, factory, want32, calibVars>>

DistortSToP ==
    /\ factory.class = "LensWideDistortionFactory"
    /\ xform' = LensWideDistortionFactory_distort_s_to_p(factory)
    /\ UNCHANGED <<cam, out, factory, want32, calibVars>>

UndistortPToS ==
    /\ factory.class = "LensWideDistortionFactory"
    /\ xform' = LensWideDistortionFactory_undistort_p_to_s(factory)
    /\ UNCHANGED <<cam, out, factory, want32, calibVars>>

NextDistort ==
    \/ CreateNarrow
    \/ CreateWide
    \/ NewNarrowToWide
    \/ NewNarrowFactory
    \/ NewWideFactory
    \/ Distort
    \/ Undistort
    \/ DistortSToP
    \/ UndistortPToS
    \/ Discard

SpecDistort == Init /\ [][NextDistort]_vars

(***************************************************************************)
(* Changing the camera model of an image                                   *)
(***************************************************************************)
ChangeCameraModel ==
    /\ Idle
    /\ \E o \in Models, d \in WideArgs, a \in AdjustArgs, b \in BOOLEAN :
          out' = [CallRecord("create_change_camera_model", o,
                             create_change_camera_model(o, d, a, b))
                    EXCEPT !.arg = [orig |-> o, desired |-> d, adjustment |-> a]]
    /\ UNCHANGED <<cam, distortVars, calibVars>>

RemoveDistortion ==
    /\ Idle
    /\ \E m \in Models, a \in AdjustArgs, b \in BOOLEAN :
          out' = [CallRecord("remove_distortion", m, remove_distortion(m, a, b))
                    EXCEPT !.arg = [orig |-> m, adjustment |-> a]]
    /\ UNCHANGED <<cam, distortVars, calibVars>>

AdjustmentToJava ==
    /\ Idle
    /\ \E a \in AdjustArgs :
          out' = [CallRecord("adjustment_to_java", a, adjustment_to_java(a))
                    EXCEPT !.arg = [adjustment |-> a]]
    /\ UNCHANGED <<cam, distortVars, calibVars>>

NextAdjust ==
    \/ ChangeCameraModel
    \/ RemoveDistortion
    \/ AdjustmentToJava
    \/ Discard

SpecAdjust == Init /\ [][NextAdjust]_vars

(***************************************************************************)
(* The calibrate_* procedures, one foreign call per step                   *)
(***************************************************************************)
IsStereo == call.fn = "calibrate_stereo"

Log(entry) == [jcalib EXCEPT !.log = Append(@, entry)]

\* a calibrate_* function that goes on after a foreign call threw
AfterForeign_swallow(ok, next) == next

\* where a calibrate_* function goes after a foreign call that either
\* returned (ok) or threw: an exception leaves the function at once
AfterForeign(ok, next) == IF ok THEN next ELSE "raised"

\* the caller calls fn(observations, detector, ...): the layout is read and
\* the solver is constructed
CalibCall ==
    /\ pc = "idle"
    /\ \E c \in CalibCalls : call' = c
    /\ jcalib' = NewSolver
    /\ idx' = 0
    /\ jresult' = NoObject
    /\ errors' = <<>>
    /\ result' = NoObject
    /\ pc' = "configure"
    /\ UNCHANGED <<modelVars, distortVars>>

\* jcalib_planar.configure...(...)
CalibConfigure ==
    /\ pc = "configure"
    /\ \E ok \in BOOLEAN :
          /\ pc' = AfterForeign(ok, "add")
          /\ jcalib' = IF ok
                       THEN [jcalib EXCEPT !.cfg = ConfigureOf(call),
                                           !.log = Append(@, "configure")]
                       ELSE Log("configure:thrown")
    /\ UNCHANGED <<call, idx, jresult, errors, result, modelVars, distortVars>>

\* one pass of "for o in observations: jcalib_planar.addImage(convert(o))"
CalibAddImage ==
    /\ pc = "add"
    /\ ~IsStereo
    /\ idx < Len(call.observations)
    /\ LET c == convert_into_boof_calibration_observations(call.observations[idx + 1])
       IN IF c.raised # "none"
          THEN /\ pc' = "raised"
               /\ UNCHANGED <<jcalib, idx>>
          ELSE /\ jcalib' = [jcalib EXCEPT !.images = Append(@, c.ret),
                                           !.log = Append(@, "add")]
               /\ idx' = idx + 1
               /\ pc' = "add"
    /\ UNCHANGED <<call, jresult, errors, result, modelVars, distortVars>>

\* one pass of "for idx in range(len(observations_left))" of calibrate_stereo
CalibAddPair ==
    /\ pc = "add"
    /\ IsStereo
    /\ idx < Len(call.observations)
    /\ LET l == convert_into_boof_calibration_observations(call.observations[idx + 1])
       IN IF l.raised # "none" \/ idx >= Len(call.right)
          THEN /\ pc' = "raised"
               /\ UNCHANGED <<jcalib, idx>>
          ELSE LET r == convert_into_boof_calibration_observations(call.right[idx + 1])
               IN IF r.raised # "none"
                  THEN /\ pc' = "raised"
                       /\ UNCHANGED <<jcalib, idx>>
                  ELSE /\ jcalib' = [jcalib EXCEPT !.images = Append(@, <<l.ret, r.ret>>),
                                                   !.log = Append(@, "add")]
                       /\ idx' = idx + 1
                       /\ pc' = "add"
    /\ UNCHANGED <<call, jresult, errors, result, modelVars, distortVars>>

\* intrinsic = Camera...(jcalib_planar.process()), once the loop has ended
CalibProcess ==
    /\ pc = "add"
    /\ idx = Len(call.observations)
    /\ \E ok \in BOOLEAN :
          /\ pc' = AfterForeign(ok, "errors")
          /\ jcalib' = Log(IF ok THEN "process" ELSE "process:thrown")
          /\ jresult' = IF ok THEN WrapResult(call.fn, ProcessResult(jcalib.cfg))
                        ELSE jresult
    /\ UNCHANGED <<call, idx, errors, result, modelVars, distortVars>>

\* the loop over jcalib_planar.getErrors() (computeErrors() for stereo)
CalibReadErrors ==
    /\ pc = "errors"
    /\ errors' = [i \in 1..Len(jcalib.images) |-> ErrorStats]
    /\ jcalib' = Log("getErrors")
    /\ pc' = "return"
    /\ UNCHANGED <<call, idx, jresult, result, modelVars, distortVars>>

\* return (intrinsic, errors)
CalibReturn ==
    /\ pc = "return"
    /\ result' = [class |-> "tuple", model |-> jresult, errors |-> errors]
    /\ pc' = "done"
    /\ UNCHANGED <<call, jcalib, idx, jresult, errors, modelVars, distortVars>>

\* the call is over, by a return or by an exception; the caller goes on
CalibEnd ==
    /\ pc \in {"done", "raised"}
    /\ pc' = "idle"
    /\ call' = NoCall
    /\ jcalib' = NewSolver
    /\ idx' = 0
    /\ jresult' = NoObject
    /\ errors' = <<>>
    /\ result' = NoObject
    /\ UNCHANGED <<modelVars, distortVars>>

NextCalib ==
    \/ CalibCall
    \/ CalibConfigure
    \/ CalibAddImage
    \/ CalibAddPair
    \/ CalibProcess
    \/ CalibReadErrors
    \/ CalibReturn
    \/ CalibEnd

SpecCalib == Init /\ [][NextCalib]_vars

(***************************************************************************)
(* Properties                                                              *)
(***************************************************************************)
Range(q) == {q[i] : i \in 1..Len(q)}
IsPrefix(a, b) == Len(a) <= Len(b) /\ \A i \in 1..Len(a) : a[i] = b[i]
ClassOf(obj) == obj["class"]

\* C1: create_narrow_lens_distorter builds LensDistortionPinhole for a
\* CameraPinhole and for a CameraBrown that is not distorted, and
\* LensDistortionBrown for every CameraBrown that is distorted.
C1_NarrowDispatchRule ==
    out.op = "create_narrow_lens_distorter" =>
        /\ ClassOf(out.arg) = "CameraPinhole" =>
              out.raised = "none" /\ ClassOf(out.ret.java_obj) = "LensDistortionPinhole"
        /\ ClassOf(out.arg) = "CameraBrown" =>
              /\ out.raised = "none"
              /\ ClassOf(out.ret.java_obj) =
                    IF is_distorted(out.arg) THEN "LensDistortionBrown"
                    ELSE "LensDistortionPinhole"

\* C2: a narrow-FOV build for a CameraUniversalOmni, by
\* create_narrow_lens_distorter or by the NarrowToWideFovPtoP constructor,
\* raises RuntimeError whatever the fields of the model, before any model is
\* converted or any engine built, and hands back no factory.
C2_OmniNarrowAlwaysFails ==
    (/\ out.op \in {"create_narrow_lens_distorter", "NarrowToWideFovPtoP"}
     /\ ClassOf(out.arg) = "CameraUniversalOmni") =>
        /\ out.raised = "RuntimeError"
        /\ out.calls = <<>>
        /\ out.ret = NoObject
        /\ factory = NoObject

C2_Witness ==
    /\ out.op = "create_narrow_lens_distorter"
    /\ ClassOf(out.arg) = "CameraUniversalOmni"
    /\ out.arg["mirror_offset"] = 1
    /\ out.arg["t1"] = 1
    /\ out.raised = "RuntimeError"

\* C3: is_distorted() of a CameraBrown or CameraUniversalOmni is true exactly
\* when the radial list is non-empty or t1 # 0 or t2 # 0; radial unset or
\* empty with t1 = t2 = 0 is reported as not distorted.
C3_IsDistortedIffCoefficients ==
    out.op = "is_distorted" =>
        LET m == cam[out.self]
        IN out.ret = ((~m["radial"].isNone /\ Len(m["radial"].v) > 0)
                      \/ m["t1"] # 0 \/ m["t2"] # 0)

\* C4: after a.set(b) with a and b of the same variant, every field of the
\* variant in a equals the field in b.
C4_SetCopiesEveryField ==
    (out.op = "set" /\ ClassOf(cam[out.self]) = ClassOf(cam[out.orig])) =>
        /\ out.raised = "none"
        /\ \A f \in DOMAIN cam[out.orig] : cam[out.self][f] = cam[out.orig][f]

\* C5: calibrate_universal configures the solver with a fixed mirror offset
\* exactly when mirror_offset is supplied (0.0 included), with the supplied
\* value, and without one exactly when it is None.
C5_MirrorFixedIffSupplied ==
    (call.fn = "calibrate_universal" /\ jcalib.cfg # NoConfig) =>
        /\ jcalib.cfg.method = "configureUniversalOmni"
        /\ jcalib.cfg.fixed_mirror = ~call.mirror_offset.isNone
        /\ ~call.mirror_offset.isNone => jcalib.cfg.mirror = call.mirror_offset.v

C5_Witness ==
    /\ call.fn = "calibrate_universal"
    /\ call.mirror_offset = Num(0)
    /\ jcalib.cfg.fixed_mirror
    /\ pc = "done"

\* the calls a calibrate_* function makes on its solver when nothing fails,
\* for n observations (n pairs for calibrate_stereo)
ExpectedLog(n) == <<"configure">> \o [i \in 1..n |-> "add"] \o <<"process", "getErrors">>

\* the calls that returned: the log without a last call that threw
ReturnedCalls ==
    IF jcalib.log # <<>> /\ jcalib.log[Len(jcalib.log)] \in {"configure:thrown", "process:thrown"}
    THEN SubSeq(jcalib.log, 1, Len(jcalib.log) - 1)
    ELSE jcalib.log

\* C6: in every calibrate_* function the solver is configured, every
\* observation is added, process() returns and only then the errors are
\* read; when configure, a conversion or process() fails the call ends with
\* the exception and hands back no (model, errors) result.
C6_ErrorsOnlyAfterProcess ==
    LET full == ExpectedLog(Len(call.observations))
    IN /\ IsPrefix(ReturnedCalls, full)
       /\ "getErrors" \in Range(jcalib.log) => SubSeq(jcalib.log, 1, Len(jcalib.log) - 1)
                                                  = SubSeq(full, 1, Len(full) - 1)
       /\ pc \in {"return", "done"} => jcalib.log = full
       /\ pc = "errors" => jcalib.log = SubSeq(full, 1, Len(full) - 1)
       /\ errors # <<>> => jcalib.log = full
       /\ result # NoObject => pc = "done" /\ jcalib.log = full
       /\ pc = "raised" => result = NoObject /\ errors = <<>> /\ jcalib.log # full
       /\ jcalib.log # ReturnedCalls => pc = "raised"

C6_Witness ==
    /\ pc = "done"
    /\ call.fn = "calibrate_stereo"
    /\ Len(call.observations) = 2
    /\ result # NoObject
    /\ Len(result.errors) = 2

\* C7: create_wide_lens_distorter builds the Universal-Omni engine for a
\* CameraUniversalOmni, the Kannala-Brandt engine for a CameraKannalaBrandt,
\* and for every other argument raises an error and hands back no factory.
C7_WideDispatchTotal ==
    out.op = "create_wide_lens_distorter" =>
        CASE ClassOf(out.arg) = "CameraUniversalOmni" ->
                /\ out.raised = "none"
                /\ ClassOf(out.ret) = "LensWideDistortionFactory"
                /\ ClassOf(out.ret.java_obj) = "LensDistortionUniversalOmni"
          [] ClassOf(out.arg) = "CameraKannalaBrandt" ->
                /\ out.raised = "none"
                /\ ClassOf(out.ret) = "LensWideDistortionFactory"
                /\ ClassOf(out.ret.java_obj) = "LensDistortionKannalaBrandt"
          [] OTHER ->
                /\ out.raised = "RuntimeError"
                /\ out.ret = NoObject
                /\ factory = NoObject

C7_Witness ==
    /\ out.op = "create_wide_lens_distorter"
    /\ ClassOf(out.arg) = "CameraBrown"
    /\ is_distorted(out.arg)
    /\ out.raised = "RuntimeError"

\* the rendering r has exactly one item labelled l, and its value is v
HasField(r, l, v) ==
    /\ Cardinality({i \in 1..Len(r.items) : r.items[i][1] = l}) = 1
    /\ \E i \in 1..Len(r.items) : r.items[i][1] = l /\ r.items[i][2] = v

\* C8: the rendering of a model holds every model-specific field of its
\* variant under its own label: radial, t1 and t2 for Brown and
\* UniversalOmni (and the mirror offset for UniversalOmni) for every field
\* valuation, and the five coefficient lists for KannalaBrandt.
C8_StrHoldsEveryField ==
    out.op = "str" =>
        LET m == cam[out.self]
        IN /\ isinstance(m, "CameraBrown") =>
                /\ HasField(out.ret, "radial", m["radial"])
                /\ HasField(out.ret, "t1", m["t1"])
                /\ HasField(out.ret, "t2", m["t2"])
           /\ isinstance(m, "CameraUniversalOmni") =>
                HasField(out.ret, "mirror", m["mirror_offset"])
           /\ isinstance(m, "CameraKannalaBrandt") =>
                \A f \in KBFields : HasField(out.ret, f, m[f])

\* C9: every transform a factory builds has the precision of the factory's
\* use_32, and a factory built through create_narrow_lens_distorter or
\* create_wide_lens_distorter has the precision its caller chose.
C9_PrecisionChosenByCaller ==
    /\ xform # NoObject => xform.java_obj.bits = IF factory.use_32 THEN 32 ELSE 64
    /\ (/\ out.op \in {"create_narrow_lens_distorter", "create_wide_lens_distorter"}
        /\ factory # NoObject) => factory.use_32 = want32

\* the foreign constant the claim assigns to an adjustment value
AdjustmentName(value) ==
    IF PyEq(value, AdjustmentType_NONE) THEN "NONE"
    ELSE IF PyEq(value, AdjustmentType_FULL_VIEW) THEN "FULL_VIEW"
    ELSE IF PyEq(value, AdjustmentType_EXPAND) THEN "EXPAND"
    ELSE "unknown"

\* C10: adjustment_to_java maps NONE, FULL_VIEW and EXPAND to the foreign
\* constant of the same name and raises for every other value; with such a
\* value create_change_camera_model and remove_distortion raise before a
\* camera model is converted and before an image is written.
C10_AdjustmentOneToOne ==
    out.op \in {"adjustment_to_java", "create_change_camera_model", "remove_distortion"} =>
        LET name == AdjustmentName(out.arg.adjustment)
        IN IF name = "unknown"
           THEN /\ out.raised = "RuntimeError"
                /\ out.ret = NoObject
                /\ "convert_to_boof" \notin Range(out.calls)
                /\ "changeCameraModel" \notin Range(out.calls)
                /\ "apply" \notin Range(out.calls)
           ELSE /\ out.op = "adjustment_to_java" => out.raised = "none" /\ out.ret = name
                /\ (out.op = "create_change_camera_model" /\ out.raised = "none") =>
                      out.ret.distort.adjustment = name

C10_Witness ==
    /\ out.op = "remove_distortion"
    /\ out.arg.adjustment = PyNumber("int", 3)
    /\ ClassOf(out.arg.orig) = "CameraBrown"
    /\ is_distorted(out.arg.orig)
    /\ out.raised = "RuntimeError"
    /\ out.calls = <<"getImageType", "get_java_object">>

\* an observation in the form the calibrate_* docstrings give
Documented(o) == DOMAIN o = {"points", "width", "height"}

\* the call ended with an exception that no foreign call threw: it was
\* raised in pass idx of the observation loop
RaisedInLoop == pc = "raised" /\ jcalib.log = ReturnedCalls

\* C11: every calibrate_* function converts an observation given as a
\* mapping with the keys "points", "width" and "height" without error: no
\* pass of the observation loop raises on observations of that form.
C11_DocumentedFormConverts ==
    RaisedInLoop =>
        IF IsStereo
        THEN idx < Len(call.right) =>
                ~(Documented(call.observations[idx + 1]) /\ Documented(call.right[idx + 1]))
        ELSE ~Documented(call.observations[idx + 1])

\* the foreign pair calibrate_stereo builds from observations i of both lists
PairOf(i) ==
    <<convert_into_boof_calibration_observations(call.observations[i]).ret,
      convert_into_boof_calibration_observations(call.right[i]).ret>>

\* C12: calibrate_stereo hands the solver exactly the pairs
\* (observations_left[i], observations_right[i]) in index order when the
\* lists have the same length, and ends with an error, without running the
\* solver, when they differ in length.
C12_StereoStrictlyPaired ==
    IsStereo =>
        /\ (Len(call.observations) = Len(call.right) /\ "process" \in Range(jcalib.log)) =>
              /\ Len(jcalib.images) = Len(call.observations)
              /\ \A i \in 1..Len(jcalib.images) : jcalib.images[i] = PairOf(i)
        /\ Len(call.observations) # Len(call.right) =>
              /\ "process" \notin Range(jcalib.log)
              /\ result = NoObject

(***************************************************************************)
(* Marshaling of calibration observations                                  *)
(***************************************************************************)
\* jobs = convert_into_boof_calibration_observations(o)
ConvertInto ==
    /\ Idle
    /\ \E o \in MarshalArgs :
          out' = CallRecord("convert_into_boof_calibration_observations", o,
                            convert_into_boof_calibration_observations(o))
    /\ UNCHANGED <<cam, distortVars, calibVars>>

\* convert_from_boof_calibration_observations(jobs), on the foreign
\* observation the last call built from orig
ConvertFrom ==
    /\ out.op = "convert_into_boof_calibration_observations"
    /\ out.raised = "none"
    /\ out' = [op |-> "convert_from_boof_calibration_observations", arg |-> out.ret,
               orig |-> out.arg, raised |-> "none", calls |-> <<>>,
               ret |-> convert_from_boof_calibration_observations(out.ret)]
    /\ UNCHANGED <<cam, distortVars, calibVars>>

NextObs ==
    \/ ConvertInto
    \/ ConvertFrom
    \/ Discard

SpecObs == Init /\ [][NextObs]_vars

\* C13: convert_into_boof_calibration_observations adds one foreign point
\* per input tuple, in input order, with that tuple's (point_index, x, y),
\* repeated indices included; convert_from_boof_calibration_observations of
\* the result is the original sequence of tuples.
C13_MarshalingKeepsSequence ==
    /\ (out.op = "convert_into_boof_calibration_observations" /\ out.raised = "none") =>
          LET pixels == out.arg["pixels"]
          IN /\ Len(out.ret.points) = Len(pixels)
             /\ \A i \in 1..Len(pixels) :
                   /\ out.ret.points[i].index = pixels[i][1]
                   /\ out.ret.points[i].x = pixels[i][2]
                   /\ out.ret.points[i].y = pixels[i][3]
    /\ out.op = "convert_from_boof_calibration_observations" =>
          out.ret = out.orig["pixels"]

C13_Witness ==
    /\ out.op = "convert_from_boof_calibration_observations"
    /\ Len(out.ret) = 2
    /\ out.ret[1][1] = out.ret[2][1]
    /\ out.ret[1] # out.ret[2]
    /\ out.ret = out.orig["pixels"]

(***************************************************************************)
(* Conversion into a storage object the caller supplies, and reading back  *)
(***************************************************************************)
\* self.convert_to_boof(storage), by the class of self
convert_to_boof_into(self, storage) ==
    CASE self["class"] = "CameraPinhole" -> CameraPinhole_convert_to_boof(self, storage)
      [] self["class"] = "CameraBrown" -> CameraBrown_convert_to_boof(self, storage)
      [] self["class"] = "CameraUniversalOmni" ->
            CameraUniversalOmni_convert_to_boof(self, storage)
      [] self["class"] = "CameraKannalaBrandt" ->
            CameraKannalaBrandt_convert_to_boof(self, storage)

\* self.set_from_boof(b), by the class of self
set_from_boof(self, b) ==
    CASE self["class"] = "CameraPinhole" -> CameraPinhole_set_from_boof(self, b)
      [] self["class"] = "CameraBrown" -> CameraBrown_set_from_boof(self, b)
      [] self["class"] = "CameraUniversalOmni" -> CameraUniversalOmni_set_from_boof(self, b)
      [] self["class"] = "CameraKannalaBrandt" -> CameraKannalaBrandt_set_from_boof(self, b)

\* StereoParameters.convert_to_boof(storage): with no storage a foreign
\* StereoParameters is built around two converted CameraBrown(); left and
\* right are then converted into the storage's left and right
StereoParameters_convert_to_boof(self, storage) ==
    LET boof_parameters ==
            IF storage = NoObject
            THEN [class |-> "StereoParameters",
                  left |-> convert_to_boof(CameraBrown_init("CameraBrown")),
                  right |-> convert_to_boof(CameraBrown_init("CameraBrown")),
                  right_to_left |-> "Se3_F64"]
            ELSE storage
    IN [class |-> "StereoParameters",
        left |-> convert_to_boof_into(self.left, boof_parameters.left),
        right |-> convert_to_boof_into(self.right, boof_parameters.right),
        right_to_left |-> self.right_to_left]

\* the foreign object has every setter self.convert_to_boof calls on it
Accepts(storage, self) ==
    \A f \in DOMAIN self : f \in DOMAIN storage

\* storage = cam[i].convert_to_boof()
ConvertToBoof(i) ==
    /\ out' = [op |-> "convert_to_boof", self |-> i, reused |-> FALSE,
               ret |-> convert_to_boof(cam[i])]
    /\ UNCHANGED <<cam, distortVars, calibVars>>

\* cam[i].convert_to_boof(storage), storage being the object the last
\* conversion returned
ConvertToStorage(i) ==
    /\ out.op = "convert_to_boof"
    /\ Accepts(out.ret, cam[i])
    /\ out' = [op |-> "convert_to_boof", self |-> i, reused |-> TRUE,
               ret |-> convert_to_boof_into(cam[i], out.ret)]
    /\ UNCHANGED <<cam, distortVars, calibVars>>

\* cam[j].set_from_boof(storage), on the object the last conversion filled
\* from another model of the same class
SetFromBoof(j) ==
    /\ out.op = "convert_to_boof"
    /\ j # out.self
    /\ cam[j]["class"] = cam[out.self]["class"]
    /\ cam' = [cam EXCEPT ![j] = set_from_boof(cam[j], out.ret)]
    /\ out' = [op |-> "set_from_boof", self |-> j, from |-> out.self, reused |-> out.reused]
    /\ UNCHANGED <<distortVars, calibVars>>

\* StereoParameters with left = cam[l] and right = cam[r], converted into a
\* fresh foreign object or into the one the last stereo conversion returned
StereoConvertToBoof(l, r) ==
    /\ l # r
    /\ cam[l]["class"] = "CameraBrown"
    /\ cam[r]["class"] = "CameraBrown"
    /\ LET stereo == [class |-> "StereoParameters", left |-> cam[l], right |-> cam[r],
                      right_to_left |-> "Se3_F64"]
       IN \E reuse \in {FALSE, out.op = "StereoParameters.convert_to_boof"} :
             out' = [op |-> "StereoParameters.convert_to_boof", left |-> l, right |-> r,
                     reused |-> reuse,
                     ret |-> StereoParameters_convert_to_boof(
                                 stereo, IF reuse THEN out.ret ELSE NoObject)]
    /\ UNCHANGED <<cam, distortVars, calibVars>>

NextStore ==
    \/ \E i \in Objs : New(i)
    \/ \E i \in Objs : SetMatrix(i)
    \/ \E i \in Objs : SetDistortion(i)
    \/ \E i \in Objs : AssignMirrorOffset(i)
    \/ \E i \in Objs : AssignCoefficients(i)
    \/ \E i \in Objs : ConvertToBoof(i)
    \/ \E i \in Objs : ConvertToStorage(i)
    \/ \E j \in Objs : SetFromBoof(j)
    \/ \E l \in Objs, r \in Objs : StereoConvertToBoof(l, r)

SpecStore == Init /\ [][NextStore]_vars

\* C14: convert_to_boof into a storage object the caller supplies overwrites
\* every field: a model of the same class read back from the storage with
\* set_from_boof equals the model converted, whatever the storage held, and
\* the left and right of a StereoParameters read back from its storage are
\* the left and right converted.
C14_StorageOverwritten ==
    /\ (out.op = "set_from_boof" /\ out.reused) => cam[out.self] = cam[out.from]
    /\ (out.op = "StereoParameters.convert_to_boof" /\ out.reused) =>
          LET back == StereoParameters_set_from_boof(out.ret)
          IN back.left = cam[out.left] /\ back.right = cam[out.right]

====
